---- MODULE Spec2Model ----
(***************************************************************************)
(* A model of picsort (src/src/lib.rs, src/src/main.rs): discovery of the  *)
(* media files below a source directory, resolution of a date fragment for *)
(* each of them, and the copy pass.  Paths and file names are TLA+ strings; *)
(* the path and regex functions are computed character by character.       *)
(***************************************************************************)
EXTENDS Integers, Sequences, FiniteSets, TLC

(***************************************************************************)
(* Strings                                                                  *)
(***************************************************************************)
Char(s, i) == SubSeq(s, i, i)

Digits == {"0", "1", "2", "3", "4", "5", "6", "7", "8", "9"}

Whitespace == {" ", "\t", "\n"}

Upper == <<"A", "B", "C", "D", "E", "F", "G", "H", "I", "J", "K", "L", "M",
           "N", "O", "P", "Q", "R", "S", "T", "U", "V", "W", "X", "Y", "Z">>

Lower == <<"a", "b", "c", "d", "e", "f", "g", "h", "i", "j", "k", "l", "m",
           "n", "o", "p", "q", "r", "s", "t", "u", "v", "w", "x", "y", "z">>

LowerMap == [c \in {Upper[k] : k \in DOMAIN Upper} |->
               Lower[CHOOSE k \in DOMAIN Upper : Upper[k] = c]]

\* char::to_lowercase on one character
LowerChar(c) == IF c \in DOMAIN LowerMap THEN LowerMap[c] ELSE c

\* String::to_lowercase, character by character (the string is halved
\* until single characters are left)
RECURSIVE to_lowercase(_)
to_lowercase(s) ==
    IF Len(s) <= 1 THEN LowerChar(s)
    ELSE to_lowercase(SubSeq(s, 1, Len(s) \div 2))
           \o to_lowercase(SubSeq(s, Len(s) \div 2 + 1, Len(s)))

\* str::ends_with
ends_with(s, suffix) ==
    /\ Len(suffix) <= Len(s)
    /\ SubSeq(s, Len(s) - Len(suffix) + 1, Len(s)) = suffix

starts_with(s, prefix) ==
    /\ Len(prefix) <= Len(s)
    /\ SubSeq(s, 1, Len(prefix)) = prefix

\* every character of s[from..to] is in the set cs
AllIn(s, from, to, cs) == \A i \in from..to : Char(s, i) \in cs

\* Option<String>
None == [some |-> FALSE, val |-> ""]

Some(v) == [some |-> TRUE, val |-> v]

(***************************************************************************)
(* std::path                                                                *)
(***************************************************************************)
Min(S) == CHOOSE x \in S : \A y \in S : x <= y

\* the last position of c in s[1..i], 0 when there is none
LastIndex(s, c, i) ==
    LET at == {j \in 1..i : Char(s, j) = c}
    IN  IF at = {} THEN 0 ELSE CHOOSE j \in at : \A k \in at : k <= j

LastSlash(p) == LastIndex(p, "/", Len(p))

\* Path::file_name: the last component
file_name(p) == SubSeq(p, LastSlash(p) + 1, Len(p))

\* Path::parent: the path without its last component ("" for a bare name)
parent(p) ==
    LET k == LastSlash(p)
    IN  IF k = 0 THEN ""
        ELSE IF k = 1 THEN "/"
        ELSE SubSeq(p, 1, k - 1)

\* Path::extension: the part of the file name after its last '.', if the
\* name has a '.' that is not its first character
extension(p) ==
    LET name == file_name(p)
        dot == LastIndex(name, ".", Len(name))
    IN  IF dot <= 1 THEN None
        ELSE Some(SubSeq(name, dot + 1, Len(name)))

\* Path::join
join(base, rel) ==
    IF starts_with(rel, "/") THEN rel
    ELSE IF rel = "" THEN base
    ELSE IF ends_with(base, "/") THEN base \o rel
    ELSE base \o "/" \o rel

\* p lies below (or is) the directory root
Under(p, root) == p = root \/ starts_with(p, root \o "/")

\* the proper ancestors of an absolute path, and the path itself
RECURSIVE Ancestors(_)
Ancestors(p) ==
    IF p = "" \/ p = "/" THEN {}
    ELSE {p} \cup Ancestors(parent(p))

(***************************************************************************)
(* is_media_file                                                            *)
(***************************************************************************)
MediaExtensions == {"jpg", "jpeg", "mp4", "png"}

is_media_file(p) ==
    LET ext == extension(p)
    IN  IF ~ext.some THEN FALSE
        ELSE to_lowercase(ext.val) \in MediaExtensions

(***************************************************************************)
(* smartphone_file: the first match of                                      *)
(*   (?:IMG|VID)_ \d{4} \d{2} \d{2} _(\d{6}).(?:jpg|mp4)                    *)
(* anywhere in the input; '.' is the regex's any-character-but-newline.     *)
(***************************************************************************)
SmartphoneLen == 23

AnyChar(c) == c # "\n"

SmartphoneMatchAt(s, i) ==
    /\ i + SmartphoneLen - 1 <= Len(s)
    /\ SubSeq(s, i, i + 2) \in {"IMG", "VID"}
    /\ Char(s, i + 3) = "_"
    /\ AllIn(s, i + 4, i + 11, Digits)
    /\ Char(s, i + 12) = "_"
    /\ AllIn(s, i + 13, i + 18, Digits)
    /\ AnyChar(Char(s, i + 19))
    /\ SubSeq(s, i + 20, i + 22) \in {"jpg", "mp4"}

smartphone_file(filename) ==
    LET starts == {i \in 1..Len(filename) : SmartphoneMatchAt(filename, i)}
    IN  IF starts = {} THEN None
        ELSE LET i == Min(starts)
             IN  Some(SubSeq(filename, i + 4, i + 7) \o "/"
                      \o SubSeq(filename, i + 8, i + 9) \o "/"
                      \o SubSeq(filename, i + 10, i + 11) \o "/"
                      \o SubSeq(filename, i, i + SmartphoneLen - 1))

\* the date pattern of read_jpg_exif,
\*   (?P<y>\d{4})-(?P<m>\d{2})-(?P<d>\d{2})\s+(?:\d|:){8}
\* the part after the day, with k whitespace characters, for a day at i
ExifDateMatchAt(s, i, k) ==
    /\ k >= 1
    /\ i + 17 + k <= Len(s)
    /\ AllIn(s, i + 10, i + 9 + k, Whitespace)
    /\ AllIn(s, i + 10 + k, i + 17 + k, Digits \cup {":"})

\* YYYY-MM-DD at position i
ExifDayAt(s, i) ==
    /\ i + 9 <= Len(s)
    /\ AllIn(s, i, i + 3, Digits)
    /\ Char(s, i + 4) = "-"
    /\ AllIn(s, i + 5, i + 6, Digits)
    /\ Char(s, i + 7) = "-"
    /\ AllIn(s, i + 8, i + 9, Digits)

ExifDate(text) ==
    LET starts == {i \in 1..Len(text) :
                     /\ ExifDayAt(text, i)
                     /\ \E k \in 1..Len(text) : ExifDateMatchAt(text, i, k)}
    IN  IF starts = {} THEN None
        ELSE LET i == Min(starts)
             IN  Some(SubSeq(text, i, i + 3) \o "/"
                      \o SubSeq(text, i + 5, i + 6) \o "/"
                      \o SubSeq(text, i + 8, i + 9))

(***************************************************************************)
(* The world: a file's content, the candidate source files, and the        *)
(* bounds of the model                                                      *)
(***************************************************************************)
\* the largest number of files below the source directory
MaxFiles == 2

\* the number of times the program is run in a row
MaxRuns == 2

\* args.folder and $HOME
SourceRoot == "/s"

HomeDir == "/h"

\* the working directories the program is run from: one outside the source
\* directory, the source directory itself, and a directory below it whose
\* name is that of a smartphone picture
WorkDirs == {"/w", "/s", "/s/IMG_20200202_000002.jpg"}

\* A file's content: its bytes, whether exif::Reader::read_from_container
\* parses it, and the display value of its DateTimeOriginal field, if any.
EmptyFile == [bytes |-> "", container |-> FALSE, dto |-> None]

OtherEmpty == [bytes |-> "other", container |-> FALSE, dto |-> None]

DatedImage ==
    [bytes |-> "dated", container |-> TRUE, dto |-> Some("2022-12-17 10:00:00")]

UndatedImage == [bytes |-> "undated", container |-> TRUE, dto |-> None]

OddDateImage ==
    [bytes |-> "odd", container |-> TRUE, dto |-> Some("2022-12-17")]

OldContent == [bytes |-> "old", container |-> FALSE, dto |-> None]

Candidates ==
    { [path |-> "/s/IMG_20210130_000001.jpg", content |-> EmptyFile],
      [path |-> "/s/a/IMG_20210130_000001.jpg", content |-> OtherEmpty],
      [path |-> "/s/a/b/test_image.JPG", content |-> DatedImage],
      [path |-> "/s/pic.png", content |-> UndatedImage],
      [path |-> "/s/a/odd.png", content |-> OddDateImage],
      [path |-> "/s/a/clip.MP4", content |-> EmptyFile],
      [path |-> "/s/broken.jpg", content |-> EmptyFile],
      [path |-> "/s/notes.txt", content |-> EmptyFile] }

\* what may already lie in the working directory: an earlier copy with
\* other content, and a regular file where a year directory would go
Existing(wd) ==
    { [path |-> join(wd, "2021/01/30/IMG_20210130_000001.jpg"),
       content |-> OldContent],
      [path |-> join(wd, "2022"), content |-> OldContent] }

\* the function f with f[k] = v
Put(f, k, v) == [p \in DOMAIN f \cup {k} |-> IF p = k THEN v ELSE f[p]]

Empty == [p \in {} |-> ""]

\* the files of a set of [path, content] records, as a function
AsFiles(recs) ==
    [p \in {r.path : r \in recs} |-> (CHOOSE r \in recs : r.path = p).content]

VARIABLES
    cwd,            \* the process's working directory
    home,           \* the environment variable HOME, an Option
    argsRecursive,  \* Args.recursive
    dirs,           \* the directories of the filesystem (absolute paths)
    fsFiles,        \* the regular files of the filesystem: path -> content
    unreadable,     \* the paths that cannot be opened or listed
    badEntry,       \* the paths whose directory entry reads as an error
    pc,             \* "init", "discover", "copy", "done", "failed", "panicked"
    run,            \* the number of the current run
    config,         \* MediaConfig.source and MediaConfig.target
    files,          \* MediaConfig.files: source path -> destination fragment
    stack,          \* the active calls of find_all_media_files
    pending,        \* the entries the copy loop has not visited yet
    copied_files,   \* the counter of copy_media_files
    log,            \* history: the calls of copy_file in this run
    consulted,      \* history: the files read_jpg_exif was called with
    startDirs,      \* history: dirs when this run started
    startFiles,     \* history: fsFiles when this run started
    last,           \* history: the counter and the failed entries of the last run
    input,          \* the argument of a call of smartphone_file on its own
    output          \* the result of that call

vars == <<cwd, home, argsRecursive, dirs, fsFiles, unreadable, badEntry, pc,
          run, config, files, stack, pending, copied_files, log, consulted,
          startDirs, startFiles, last, input, output>>

env == <<cwd, home, argsRecursive, unreadable, badEntry>>

probe == <<input, output>>

(***************************************************************************)
(* The filesystem                                                           *)
(***************************************************************************)
\* a path as the operating system resolves it
Resolve(p) == join(cwd, p)

is_dir(p) == Resolve(p) \in dirs

is_file(p) == Resolve(p) \in DOMAIN fsFiles

\* Path::exists
exists(p) == is_dir(p) \/ is_file(p)

\* fs::read_dir: the entries of a directory, or an error
read_dir(p) ==
    IF is_dir(p) /\ Resolve(p) \notin unreadable
    THEN [ok |-> TRUE,
          entries |-> {e \in dirs \cup DOMAIN fsFiles :
                         Under(e, Resolve(p)) /\ parent(e) = Resolve(p)}]
    ELSE [ok |-> FALSE, entries |-> {}]

\* create_dir (fs::create_dir_all): every missing component is created; an
\* error when a component is a regular file
create_dir(p) ==
    LET components == Ancestors(Resolve(p))
    IN  IF \E a \in components : a \in DOMAIN fsFiles
        THEN [ok |-> FALSE, dirs |-> dirs]
        ELSE [ok |-> TRUE, dirs |-> dirs \cup components]

\* fs::copy: an error when the source cannot be opened
fs_copy(from, to) ==
    IF is_file(from) /\ Resolve(from) \notin unreadable /\ ~is_dir(to)
    THEN [ok |-> TRUE, fsFiles |-> Put(fsFiles, Resolve(to), fsFiles[Resolve(from)])]
    ELSE [ok |-> FALSE, fsFiles |-> fsFiles]

\* copy_file without its test for an existing destination
copy_file_overwrite(from, to) ==
    LET made == create_dir(parent(to))
        copy == fs_copy(from, to)
    IN  IF ~made.ok
        THEN [result |-> "error", dirs |-> dirs, fsFiles |-> fsFiles]
        ELSE IF ~copy.ok
        THEN [result |-> "error", dirs |-> made.dirs, fsFiles |-> fsFiles]
        ELSE [result |-> "copied", dirs |-> made.dirs, fsFiles |-> copy.fsFiles]

\* copy_file: "copied" is Ok(true), "skipped" is Ok(false), "error" is Err
copy_file(from, to) ==
    LET made == create_dir(parent(to))
        copy == fs_copy(from, to)
    IN  IF ~made.ok
        THEN [result |-> "error", dirs |-> dirs, fsFiles |-> fsFiles]
        ELSE IF exists(to)
        THEN [result |-> "skipped", dirs |-> made.dirs, fsFiles |-> fsFiles]
        ELSE IF ~copy.ok
        THEN [result |-> "error", dirs |-> made.dirs, fsFiles |-> fsFiles]
        ELSE [result |-> "copied", dirs |-> made.dirs, fsFiles |-> copy.fsFiles]

(***************************************************************************)
(* read_jpg_exif: a panic when the file cannot be opened or its container  *)
(* cannot be parsed                                                         *)
(***************************************************************************)
read_jpg_exif(filename) ==
    IF LET lower == to_lowercase(filename)
       IN  ~ends_with(lower, ".jpg") /\ ~ends_with(lower, ".png")
    THEN [panic |-> FALSE, res |-> None]
    ELSE IF ~is_file(filename) \/ Resolve(filename) \in unreadable
    THEN [panic |-> TRUE, res |-> None]
    ELSE IF ~fsFiles[Resolve(filename)].container
    THEN [panic |-> TRUE, res |-> None]
    ELSE LET field == fsFiles[Resolve(filename)].dto
             date == ExifDate(field.val)
         IN  IF field.some
             THEN IF date.some
                  THEN [panic |-> FALSE,
                        res |-> Some(date.val \o "/" \o file_name(filename))]
                  ELSE [panic |-> FALSE, res |-> None]
             ELSE [panic |-> FALSE, res |-> Some("no exif data")]

(***************************************************************************)
(* The worlds the program starts in: a source tree of at most MaxFiles      *)
(* candidate files and at most one irregularity: a file already in the     *)
(* working directory, an unreadable path, a failing directory entry, or    *)
(* HOME not set                                                             *)
(***************************************************************************)
OneOrNone(S) == {{}} \cup {{x} : x \in S}

\* the directories that hold the files of recs
DirsOf(recs) == UNION {Ancestors(parent(r.path)) : r \in recs}

World(recursiveOptions) ==
    \E present \in {S \in SUBSET Candidates : Cardinality(S) <= MaxFiles},
       wd \in WorkDirs :
      \E old \in OneOrNone(Existing(wd)) :
        \E u \in OneOrNone(DirsOf(present) \cup {SourceRoot}
                             \cup {r.path : r \in present}),
           b \in OneOrNone({r.path : r \in present}),
           h \in OneOrNone({HomeDir}) :
          /\ Cardinality(old) + Cardinality(u) + Cardinality(b)
                + (1 - Cardinality(h)) <= 1
          /\ cwd = wd
          /\ home = IF h = {} THEN None ELSE Some(HomeDir)
          /\ argsRecursive \in recursiveOptions
          /\ dirs = DirsOf(present \cup old) \cup Ancestors(wd)
                      \cup {SourceRoot, HomeDir}
          /\ fsFiles = AsFiles(present \cup old)
          /\ unreadable = u
          /\ badEntry = b
          /\ pc = "init"
          /\ run = 1
          /\ config = [source |-> "", target |-> ""]
          /\ files = Empty
          /\ stack = <<>>
          /\ pending = {}
          /\ copied_files = 0
          /\ log = <<>>
          /\ consulted = {}
          /\ startDirs = dirs
          /\ startFiles = fsFiles
          /\ last = [copied |-> 0, errors |-> {}]
          /\ input = ""
          /\ output = [called |-> FALSE, result |-> None]

\* Args.recursive at its default (default_value_t = true)
Init == World({TRUE})

\* Args.recursive set either way
InitAnyArgs == World(BOOLEAN)

(***************************************************************************)
(* main, run and the first call of find_all_media_files                     *)
(***************************************************************************)
\* the call with the error of read_dir passed over
Call_lenient(path, recursive) ==
    [ok |-> TRUE,
     frame |-> [dir |-> path, recursive |-> recursive,
                todo |-> read_dir(path).entries]]

\* a call find_all_media_files(Some(path), recursive) up to its loop: the
\* frame of the call, or an error when read_dir fails
Call(path, recursive) ==
    LET listing == read_dir(path)
    IN  [ok |-> listing.ok,
         frame |-> [dir |-> path, recursive |-> recursive,
                    todo |-> listing.entries]]

\* the flag copy_media_files passes to find_all_media_files
TopRecursive == TRUE

\* the flag find_all_media_files passes to its recursive call
NestedRecursive == TRUE

\* main -> run -> MediaConfig::new -> copy_media_files, up to the first
\* directory entry; HOME not set is an error of run
Start ==
    /\ pc = "init"
    /\ IF ~home.some
       THEN /\ pc' = "failed"
            /\ UNCHANGED <<config, stack>>
       ELSE /\ config' = [source |-> SourceRoot,
                          target |-> join(home.val, "Pictures")]
            /\ LET call == Call(SourceRoot, TopRecursive)
               IN  IF call.ok
                   THEN /\ stack' = <<call.frame>>
                        /\ pc' = "discover"
                   ELSE /\ stack' = <<>>
                        /\ pc' = "failed"
    /\ files' = Empty
    /\ UNCHANGED <<probe, last, env, dirs, fsFiles, run, pending, copied_files, log,
                   consulted, startDirs, startFiles>>

(***************************************************************************)
(* find_all_media_files: one iteration of the loop of the innermost call    *)
(***************************************************************************)
Top == stack[Len(stack)]

\* the stack with entry e taken from the innermost call's directory
Taken(e) == [stack EXCEPT ![Len(stack)].todo = @ \ {e}]

\* `let entry = entry?`: the error leaves every active call
EntryError ==
    /\ pc = "discover"
    /\ stack # <<>>
    /\ \E e \in Top.todo :
         /\ e \in badEntry
         /\ stack' = <<>>
         /\ pc' = "failed"
    /\ UNCHANGED <<probe, last, env, dirs, fsFiles, run, config, files, pending,
                   copied_files, log, consulted, startDirs, startFiles>>

\* a directory, and recursive is set: the recursive call, whose error
\* leaves every active call
Descend ==
    /\ pc = "discover"
    /\ stack # <<>>
    /\ \E e \in Top.todo :
         /\ e \notin badEntry
         /\ is_dir(e) /\ Top.recursive
         /\ LET call == Call(e, NestedRecursive)
            IN  IF call.ok
                THEN /\ stack' = Append(Taken(e), call.frame)
                     /\ pc' = "discover"
                ELSE /\ stack' = <<>>
                     /\ pc' = "failed"
    /\ UNCHANGED <<probe, last, env, dirs, fsFiles, run, config, files, pending,
                   copied_files, log, consulted, startDirs, startFiles>>

\* the date resolution without its second strategy
Resolution_first_only(sourcepath) ==
    [panic |-> FALSE, res |-> smartphone_file(sourcepath), exif |-> FALSE]

\* the date resolution of lines 69-75: smartphone_file, and read_jpg_exif
\* only when it gave nothing
Resolution(sourcepath) ==
    LET first == smartphone_file(sourcepath)
        second == read_jpg_exif(sourcepath)
    IN  IF first.some
        THEN [panic |-> FALSE, res |-> first, exif |-> FALSE]
        ELSE [panic |-> second.panic, res |-> second.res, exif |-> TRUE]

\* a media file: it enters the mapping when a date is resolved
MediaFile ==
    /\ pc = "discover"
    /\ stack # <<>>
    /\ \E e \in Top.todo :
         /\ e \notin badEntry
         /\ ~(is_dir(e) /\ Top.recursive)
         /\ is_file(e) /\ is_media_file(e)
         /\ LET r == Resolution(e)
            IN  /\ consulted' = IF r.exif THEN consulted \cup {e}
                                ELSE consulted
                /\ IF r.panic
                   THEN /\ pc' = "panicked"
                        /\ stack' = <<>>
                        /\ files' = files
                   ELSE /\ pc' = "discover"
                        /\ stack' = Taken(e)
                        /\ files' = IF r.res.some
                                    THEN Put(files, e, r.res.val)
                                    ELSE files
    /\ UNCHANGED <<probe, last, env, dirs, fsFiles, run, config, pending, copied_files,
                   log, startDirs, startFiles>>

\* any other entry is passed over
SkipEntry ==
    /\ pc = "discover"
    /\ stack # <<>>
    /\ \E e \in Top.todo :
         /\ e \notin badEntry
         /\ ~(is_dir(e) /\ Top.recursive)
         /\ ~(is_file(e) /\ is_media_file(e))
         /\ stack' = Taken(e)
    /\ UNCHANGED <<probe, last, env, dirs, fsFiles, pc, run, config, files, pending,
                   copied_files, log, consulted, startDirs, startFiles>>

\* the loop of a call ends: Ok(()); when it is the first call, the copy
\* loop of copy_media_files starts with copied_files = 0
ReturnDir ==
    /\ pc = "discover"
    /\ stack # <<>>
    /\ Top.todo = {}
    /\ stack' = SubSeq(stack, 1, Len(stack) - 1)
    /\ IF Len(stack) = 1
       THEN /\ pc' = "copy"
            /\ pending' = DOMAIN files
            /\ copied_files' = 0
       ELSE UNCHANGED <<pc, pending, copied_files>>
    /\ UNCHANGED <<probe, last, env, dirs, fsFiles, run, config, files, log, consulted,
                   startDirs, startFiles>>

(***************************************************************************)
(* copy_media_files: one iteration of the copy loop                         *)
(***************************************************************************)
\* the destination copy_media_files hands to copy_file for an entry
Destination(source) == files[source]

\* the loop with the error of copy_file returned (`copy_file(..)?`)
AfterCopy_propagate(result) ==
    [pc |-> IF result = "error" THEN "failed" ELSE "copy",
     copied_files |-> IF result = "copied" THEN copied_files + 1
                      ELSE copied_files]

\* what the loop does with the result of copy_file: count it, pass over it,
\* or log the error and go on
AfterCopy(result) ==
    [pc |-> "copy",
     copied_files |-> IF result = "copied" THEN copied_files + 1
                      ELSE copied_files]

CopyNext ==
    /\ pc = "copy"
    /\ \E source \in pending :
         LET to == Destination(source)
             r == copy_file(source, to)
         IN  /\ dirs' = r.dirs
             /\ fsFiles' = r.fsFiles
             /\ pc' = AfterCopy(r.result).pc
             /\ copied_files' = AfterCopy(r.result).copied_files
             /\ pending' = pending \ {source}
             /\ log' = Append(log, [source |-> source, target |-> to,
                                    dest |-> Resolve(to),
                                    existed |-> exists(to),
                                    result |-> r.result])
    /\ UNCHANGED <<probe, last, env, run, config, files, stack, consulted, startDirs,
                   startFiles>>

\* the loop ends: copy_media_files and run return Ok(()), main exits with 0
Finish ==
    /\ pc = "copy"
    /\ pending = {}
    /\ pc' = "done"
    /\ UNCHANGED <<probe, last, env, dirs, fsFiles, run, config, files, stack, pending,
                   copied_files, log, consulted, startDirs, startFiles>>

\* the program is started again on the filesystem the last run left
Rerun ==
    /\ pc \in {"done", "failed", "panicked"}
    /\ run < MaxRuns
    /\ run' = run + 1
    /\ pc' = "init"
    /\ config' = [source |-> "", target |-> ""]
    /\ files' = Empty
    /\ stack' = <<>>
    /\ pending' = {}
    /\ copied_files' = 0
    /\ log' = <<>>
    /\ consulted' = {}
    /\ startDirs' = dirs
    /\ startFiles' = fsFiles
    /\ last' = [copied |-> IF pc = "done" THEN copied_files ELSE 0,
                errors |-> {log[i].source : i \in {j \in DOMAIN log :
                                                     log[j].result = "error"}}]
    /\ UNCHANGED <<probe, env, dirs, fsFiles>>

Next ==
    \/ Start
    \/ EntryError
    \/ Descend
    \/ MediaFile
    \/ SkipEntry
    \/ ReturnDir
    \/ CopyNext
    \/ Finish
    \/ Rerun

Spec == Init /\ [][Next]_vars

SpecAnyArgs == InitAnyArgs /\ [][Next]_vars

(***************************************************************************)
(* smartphone_file on its own: the program is not started, an argument is  *)
(* drawn from names put together from parts, and the function is applied    *)
(***************************************************************************)
Inputs ==
    {"no_match.jpg", "IMG_20230115_102911.jpg", "VID_20221220_170102.jpg"}
    \cup
    { dir \o prefix \o date \o sep \o time \o dot \o ext \o suffix :
        dir \in {"", "/s/a/"},
        prefix \in {"IMG_", "VID_", "img_", "PIC_"},
        date \in {"20210130", "2021013", "2021O130"},
        sep \in {"_", "-"},
        time \in {"000001", "00001"},
        dot \in {".", "x"},
        ext \in {"jpg", "mp4", "JPG", "png"},
        suffix \in {"", ".png"} }

\* the program's own variables while it is not started
Idle ==
    /\ cwd = "/w"
    /\ home = None
    /\ argsRecursive = TRUE
    /\ dirs = {}
    /\ fsFiles = Empty
    /\ unreadable = {}
    /\ badEntry = {}
    /\ pc = "idle"
    /\ run = 0
    /\ config = [source |-> "", target |-> ""]
    /\ files = Empty
    /\ stack = <<>>
    /\ pending = {}
    /\ copied_files = 0
    /\ log = <<>>
    /\ consulted = {}
    /\ startDirs = {}
    /\ startFiles = Empty
    /\ last = [copied |-> 0, errors |-> {}]

InitSmartphone ==
    /\ Idle
    /\ input \in Inputs
    /\ output = [called |-> FALSE, result |-> None]

Apply ==
    /\ pc = "idle"
    /\ ~output.called
    /\ output' = [called |-> TRUE, result |-> smartphone_file(input)]
    /\ UNCHANGED <<input, last, env, dirs, fsFiles, pc, run, config, files,
                   stack, pending, copied_files, log, consulted, startDirs,
                   startFiles>>

NextSmartphone == Apply

SpecSmartphone == InitSmartphone /\ [][NextSmartphone]_vars

(***************************************************************************)
(* The claims                                                               *)
(***************************************************************************)
Indices == DOMAIN log

Results(kind) == {i \in Indices : log[i].result = kind}

\* C1: a call of copy_file whose destination exists leaves every file of
\* the filesystem as it was, whatever the source holds, and returns
\* Ok(false): the entry is not counted.
C1_NoOverwrite ==
    [][\A source \in pending :
         (pc = "copy" /\ pending' = pending \ {source}
            /\ exists(Destination(source)))
         => /\ fsFiles' = fsFiles
            /\ log'[Len(log')].result = "skipped"
            /\ copied_files' = copied_files]_vars

\* an entry was skipped for a destination whose content is not the source's
C1_Witness ==
    \E i \in Indices :
      /\ log[i].existed
      /\ log[i].result = "skipped"
      /\ log[i].dest \in DOMAIN fsFiles
      /\ fsFiles[log[i].dest].bytes # fsFiles[log[i].source].bytes

\* C2 as stated: a run after the first leaves the filesystem as it found
\* it, counts no copied file, and skips every entry as already existing.
C2_Original ==
    run >= 2 =>
      /\ fsFiles = startFiles
      /\ dirs = startDirs
      /\ copied_files = 0
      /\ \A i \in Indices : log[i].result = "skipped"

\* the copies are written outside the source directory, or to a directory
\* whose path holds no match of the pattern of smartphone_file
CopiesResolveAlike ==
    ~Under(cwd, SourceRoot) \/ ~smartphone_file(cwd).some

\* C2 as amended: when the copies are written outside the source directory,
\* or to a directory whose path holds no match of the pattern of
\* smartphone_file, a run after the first leaves the filesystem as it found
\* it and counts no copied file; every entry is skipped as already
\* existing, or its copy fails as it failed in the run before.
C2_Idempotent ==
    run >= 2 /\ CopiesResolveAlike =>
      /\ fsFiles = startFiles
      /\ dirs = startDirs
      /\ copied_files = 0
      /\ \A i \in Indices :
           \/ log[i].result = "skipped"
           \/ log[i].result = "error" /\ log[i].source \in last.errors

\* a second run ended after a run that copied, with the copies below the
\* source directory and found again, and every entry passed over
C2_Witness ==
    /\ run = 2
    /\ pc = "done"
    /\ CopiesResolveAlike
    /\ last.copied >= 1
    /\ Results("skipped") # {}
    /\ \E i \in Indices : log[i].source \notin DOMAIN startFiles
                              \/ Under(log[i].source, cwd)

\* C3: the path copy_file tests and writes is MediaConfig.target joined with
\* the destination fragment, and nothing is created outside the target.
C3_UnderTarget ==
    /\ \A i \in Indices : log[i].dest = join(config.target, log[i].target)
    /\ \A p \in (DOMAIN fsFiles \ DOMAIN startFiles) \cup (dirs \ startDirs) :
         Under(p, config.target)

\* C4: an entry whose copy fails stops nothing: the run ends with Ok, with
\* copy_file called once for every entry of the mapping and with
\* copied_files the number of calls that returned Ok(true).
C4_ErrorIsolation ==
    /\ Results("error") # {} => pc \in {"copy", "done"}
    /\ pc = "copy" =>
         /\ pending \cup {log[i].source : i \in Indices} = DOMAIN files
         /\ \A i \in Indices : log[i].source \notin pending
    /\ pc = "done" =>
         /\ \A source \in DOMAIN files :
              Cardinality({i \in Indices : log[i].source = source}) = 1
         /\ Len(log) = Cardinality(DOMAIN files)
    /\ pc \in {"copy", "done"} =>
         copied_files = Cardinality(Results("copied"))

\* a run ended with Ok after a copy failed and a later one succeeded
C4_Witness ==
    /\ pc = "done"
    /\ \E i, j \in Indices :
         i < j /\ log[i].result = "error" /\ log[j].result = "copied"

\* a directory below the source that cannot be listed, or an entry there
\* that cannot be read
DiscoveryMustFail ==
    \/ \E d \in unreadable : d \in startDirs /\ Under(d, SourceRoot)
    \/ \E e \in badEntry : Under(e, SourceRoot)

\* C5: discovery comes before every copy, and an error of discovery ends
\* the run with that error before copy_file is called: nothing is copied
\* and no directory is created, whatever the mapping holds by then.
C5_FailFast ==
    /\ pc \in {"discover", "failed", "panicked"} =>
         log = <<>> /\ fsFiles = startFiles /\ dirs = startDirs
    /\ pc = "failed" => stack = <<>>
    /\ log # <<>> => stack = <<>> /\ pc \in {"copy", "done"}
    /\ DiscoveryMustFail /\ pc # "init" =>
         pc \in {"discover", "failed", "panicked"}

\* discovery failed with entries in the mapping
C5_Witness ==
    /\ pc = "failed"
    /\ DOMAIN files # {}
    /\ home.some

\* C6: run with recursive = false, the program passes over every
\* subdirectory of the source: only files directly in it enter the mapping.
C6_HonoursRecursive ==
    ~argsRecursive =>
      /\ \A source \in DOMAIN files : parent(source) = SourceRoot
      /\ \A i \in DOMAIN stack : stack[i].dir = SourceRoot

\* what discovery is to record for a file: the fragment of smartphone_file
\* when the path matches, that of read_jpg_exif otherwise
Expected(p) ==
    IF smartphone_file(p).some THEN smartphone_file(p)
    ELSE read_jpg_exif(p).res

ExactFormAt(s, i) ==
    /\ i + 22 <= Len(s)
    /\ SubSeq(s, i, i + 3) \in {"IMG_", "VID_"}
    /\ AllIn(s, i + 4, i + 11, Digits)
    /\ Char(s, i + 12) = "_"
    /\ AllIn(s, i + 13, i + 18, Digits)
    /\ Char(s, i + 19) = "."
    /\ SubSeq(s, i + 20, i + 22) \in {"jpg", "mp4"}

\* C8: smartphone_file returns Some(YYYY/MM/DD/<whole match>) exactly when
\* its input holds a substring of the exact form, with a literal '.', and
\* None for every other input.
C8_ExactForm ==
    output.called =>
      LET found == {i \in 1..Len(input) : ExactFormAt(input, i)}
      IN  IF found = {} THEN output.result = None
          ELSE \E i \in found :
                 output.result =
                   Some(SubSeq(input, i + 4, i + 7) \o "/"
                        \o SubSeq(input, i + 8, i + 9) \o "/"
                        \o SubSeq(input, i + 10, i + 11) \o "/"
                        \o SubSeq(input, i, i + 22))

\* a destination fragment: 4 digits, 2 digits, 2 digits and the name
IsFragment(v, name) ==
    /\ Len(v) = 11 + Len(name)
    /\ AllIn(v, 1, 4, Digits)
    /\ Char(v, 5) = "/"
    /\ AllIn(v, 6, 7, Digits)
    /\ Char(v, 8) = "/"
    /\ AllIn(v, 9, 10, Digits)
    /\ Char(v, 11) = "/"
    /\ SubSeq(v, 12, Len(v)) = name

\* C9: every value of the mapping is a fragment <4 digits>/<2 digits>/
\* <2 digits>/<file name>; no other string is ever a destination.
C9_FragmentForm ==
    \A source \in DOMAIN files :
      IsFragment(files[source], file_name(source))

\* C10 as stated: two entries of the mapping never have the same
\* destination, and no entry is skipped for a destination that an entry of
\* the same run produced.
C10_Original ==
    /\ \A a, b \in DOMAIN files : a # b => files[a] # files[b]
    /\ \A i, j \in Indices :
         i < j /\ log[i].result = "copied" => log[j].dest # log[i].dest

\* C10 as amended: the entries of the mapping have distinct source paths
\* and may share a destination; in one copy pass at most one entry is
\* copied to a destination: every later entry for it is skipped as already
\* existing and leaves the copied content in place.
C10_OneCopyPerDestination ==
    /\ \A i, j \in Indices : i # j => log[i].source # log[j].source
    /\ \A i, j \in Indices :
         (i < j /\ log[i].dest = log[j].dest /\ log[i].result = "copied")
         => /\ log[j].result = "skipped"
            /\ log[i].dest \in DOMAIN fsFiles
            /\ fsFiles[log[i].dest] = fsFiles[log[i].source]

\* two entries had one destination: the first was copied, the other skipped
C10_Witness ==
    \E i, j \in Indices :
      /\ i < j
      /\ log[i].dest = log[j].dest
      /\ log[i].result = "copied"
      /\ log[j].result = "skipped"

====
